---- MODULE Spec2Model ----
(***************************************************************************)
(* Reconciliation and batching pipeline of the seller-apis repository:     *)
(* seller.py (Ozon) and market.py (Yandex Market).                         *)
(*                                                                         *)
(* A Python str is a sequence of one-character strings, so that str(),     *)
(* int() and price_conversion are computed character by character.  A raw  *)
(* spreadsheet cell is a str or an int: Str(s) and Num(n).  The Cyrillic   *)
(* dictionary keys of a feed row are transliterated: Kod, Kolichestvo,     *)
(* Cena; the currency text of a price is written "rub.".                   *)
(***************************************************************************)
EXTENDS Integers, Sequences, FiniteSets, TLC

VARIABLES
    watch_remnants,  \* the supplier feed: a list of rows
    offer_ids,       \* the offer-id list object (create_stocks mutates it)
    given,           \* history: offer_ids as it was when it was produced
    warehouse_id,    \* the warehouse passed to market.create_stocks
    stocks,          \* the stock-update list
    prices,          \* the price-update list
    lst,             \* argument of divide
    n,               \* chunk size of divide
    chunks,          \* list(divide(lst, n))
    exc,             \* the exception the last operation raised, "" if none
    call,            \* the function that was applied, "" before
    run,             \* the orchestrator that runs: main, upload_stocks, upload_prices
    pc,              \* its position
    account,         \* the client / campaign it works on: ozon, fbs, dbs
    supplier,        \* environment: the feed the supplier publishes
    catalog,         \* environment: the offer ids each account's listing serves
    page_cap,        \* environment: the most items the listing puts on a page
    page,            \* get_offer_ids: last_id (seller.py), page (market.py)
    product_list,    \* get_offer_ids: the items accumulated
    sent,            \* number of chunks whose submit call returned
    trace,           \* history: the calls the orchestrator made, in order
    printed,         \* what main printed
    returned         \* the value an upload_* call returned

pureVars == <<lst, n, call>>

syncVars == <<run, pc, account, supplier, catalog, page_cap, page, product_list,
              sent, trace, printed, returned>>

vars == <<watch_remnants, offer_ids, given, warehouse_id, stocks, prices,
          lst, n, chunks, exc, call, run, pc, account, supplier, catalog,
          page_cap, page, product_list, sent, trace, printed, returned>>

-----------------------------------------------------------------------------
(* Bounds of the enumerated inputs *)

MaxFeed == 2
MaxOffers == 3
MaxLen == 5
MaxChunk == 4
MaxSyncFeed == 2
MaxCatalog == 2
MaxPage == 2

-----------------------------------------------------------------------------
(* Python values *)

Str(s) == [t |-> "str", v |-> s]
Num(i) == [t |-> "int", v |-> i]

Digits == <<"0", "1", "2", "3", "4", "5", "6", "7", "8", "9">>
IsDigit(c) == \E d \in 1..10 : Digits[d] = c
DigitVal(c) == (CHOOSE d \in 1..10 : Digits[d] = c) - 1

SetMin(S) == CHOOSE x \in S : \A y \in S : x <= y
SetMax(S) == CHOOSE x \in S : \A y \in S : y <= x

RECURSIVE NatToText(_)
NatToText(i) ==
    IF i < 10 THEN <<Digits[i + 1]>>
    ELSE Append(NatToText(i \div 10), Digits[(i % 10) + 1])

\* str(x) of a str or an int
py_str(x) ==
    IF x.t = "str" THEN x.v
    ELSE IF x.v < 0 THEN <<"-">> \o NatToText(0 - x.v)
    ELSE NatToText(x.v)

RECURSIVE DigitsToNat(_)
DigitsToNat(s) ==
    IF s = <<>> THEN 0
    ELSE 10 * DigitsToNat(SubSeq(s, 1, Len(s) - 1)) + DigitVal(s[Len(s)])

Strip(s) ==
    LET keep == {i \in 1..Len(s) : s[i] # " "}
    IN  IF keep = {} THEN <<>> ELSE SubSeq(s, SetMin(keep), SetMax(keep))

\* int(x) of a str or an int: surrounding blanks, an optional sign, then
\* one or more decimal digits; anything else is a ValueError.
py_int(x) ==
    IF x.t = "int" THEN [exc |-> "", val |-> x.v]
    ELSE LET s == Strip(x.v)
             signed == s # <<>> /\ s[1] \in {"+", "-"}
             body == IF signed THEN Tail(s) ELSE s
         IN  IF body # <<>> /\ \A i \in 1..Len(body) : IsDigit(body[i])
             THEN [exc |-> "",
                   val |-> IF s[1] = "-" THEN 0 - DigitsToNat(body)
                           ELSE DigitsToNat(body)]
             ELSE [exc |-> "ValueError", val |-> 0]

\* x in l
In(x, l) == \E i \in 1..Len(l) : l[i] = x

\* a remove that removes nothing
RemoveNothing(l, x) == l

\* l.remove(x): the first occurrence goes
Remove(l, x) ==
    LET at == SetMin({i \in 1..Len(l) : l[i] = x})
    IN  SubSeq(l, 1, at - 1) \o SubSeq(l, at + 1, Len(l))

-----------------------------------------------------------------------------
(* seller.py: create_stocks *)

\* a quantity resolver without the "1" rule
seller_stock_plain(watch) ==
    LET count == py_str(watch.Kolichestvo)
    IN  IF count = <<">", "1", "0">> THEN [exc |-> "", val |-> 100]
        ELSE py_int(watch.Kolichestvo)

seller_stock(watch) ==
    LET count == py_str(watch.Kolichestvo)
    IN  IF count = <<">", "1", "0">> THEN [exc |-> "", val |-> 100]
        ELSE IF count = <<"1">> THEN [exc |-> "", val |-> 0]
        ELSE py_int(watch.Kolichestvo)

\* the loop over watch_remnants, from row i on
RECURSIVE seller_stocks_loop(_, _, _, _)
seller_stocks_loop(remnants, i, acc, ids) ==
    IF i > Len(remnants) THEN [exc |-> "", stocks |-> acc, offer_ids |-> ids]
    ELSE LET watch == remnants[i]
             code == py_str(watch.Kod)
         IN  IF In(code, ids)
             THEN LET stock == seller_stock(watch)
                  IN  IF stock.exc # ""
                      THEN [exc |-> stock.exc, stocks |-> <<>>, offer_ids |-> ids]
                      ELSE seller_stocks_loop(remnants, i + 1,
                               Append(acc, [offer_id |-> code, stock |-> stock.val]),
                               Remove(ids, code))
             ELSE seller_stocks_loop(remnants, i + 1, acc, ids)

\* [exc, stocks, offer_ids]: the exception or the returned list, and the
\* offer_ids list as the call leaves it
seller_create_stocks(remnants, ids) ==
    LET scan == seller_stocks_loop(remnants, 1, <<>>, ids)
    IN  IF scan.exc # "" THEN scan
        ELSE [exc |-> "",
              stocks |-> scan.stocks \o
                  [k \in 1..Len(scan.offer_ids) |->
                      [offer_id |-> scan.offer_ids[k], stock |-> 0]],
              offer_ids |-> scan.offer_ids]

-----------------------------------------------------------------------------
(* market.py: create_stocks *)

utcnow == "2024-01-01T00:00:00Z"

market_item(count, date) == <<[count |-> count, type |-> "FIT", updatedAt |-> date]>>

market_stock(watch) ==
    LET count == py_str(watch.Kolichestvo)
    IN  IF count = <<">", "1", "0">> THEN [exc |-> "", val |-> 100]
        ELSE IF count = <<"1">> THEN [exc |-> "", val |-> 0]
        ELSE py_int(watch.Kolichestvo)

RECURSIVE market_stocks_loop(_, _, _, _, _, _)
market_stocks_loop(remnants, i, acc, ids, wh, date) ==
    IF i > Len(remnants) THEN [exc |-> "", stocks |-> acc, offer_ids |-> ids]
    ELSE LET watch == remnants[i]
             code == py_str(watch.Kod)
         IN  IF In(code, ids)
             THEN LET stock == market_stock(watch)
                  IN  IF stock.exc # ""
                      THEN [exc |-> stock.exc, stocks |-> <<>>, offer_ids |-> ids]
                      ELSE market_stocks_loop(remnants, i + 1,
                               Append(acc, [sku |-> code, warehouseId |-> wh,
                                            items |-> market_item(stock.val, date)]),
                               Remove(ids, code), wh, date)
             ELSE market_stocks_loop(remnants, i + 1, acc, ids, wh, date)

\* a create_stocks that leaves out the second loop
market_create_stocks_nofill(remnants, ids, wh) ==
    market_stocks_loop(remnants, 1, <<>>, ids, wh, utcnow)

market_create_stocks(remnants, ids, wh) ==
    LET date == utcnow
        scan == market_stocks_loop(remnants, 1, <<>>, ids, wh, date)
    IN  IF scan.exc # "" THEN scan
        ELSE [exc |-> "",
              stocks |-> scan.stocks \o
                  [k \in 1..Len(scan.offer_ids) |->
                      [sku |-> scan.offer_ids[k], warehouseId |-> wh,
                       items |-> market_item(0, date)]],
              offer_ids |-> scan.offer_ids]

-----------------------------------------------------------------------------
(* seller.py: price_conversion, create_prices *)

\* price.split(".")[0]
BeforeFirstDot(s) ==
    LET dots == {i \in 1..Len(s) : s[i] = "."}
    IN  IF dots = {} THEN s ELSE SubSeq(s, 1, SetMin(dots) - 1)

\* a str of the digits left of the first "."; a cell that is no str has no
\* split method
price_conversion(price) ==
    IF price.t # "str" THEN [exc |-> "AttributeError", val |-> <<>>]
    ELSE [exc |-> "", val |-> SelectSeq(BeforeFirstDot(price.v), IsDigit)]

\* the rows of the feed whose code is in ids, in feed order
RowsIn(remnants, ids) ==
    LET listed(watch) == In(py_str(watch.Kod), ids)
    IN  SelectSeq(remnants, listed)

\* the first exception of a list of results, "" if there is none
FirstExc(results) ==
    LET failed == {k \in 1..Len(results) : results[k].exc # ""}
    IN  IF failed = {} THEN "" ELSE results[SetMin(failed)].exc

\* a create_prices that does not look at offer_ids
seller_create_prices_all(remnants, ids) ==
    [exc |-> "",
     prices |-> [k \in 1..Len(remnants) |->
                    [auto_action_enabled |-> "UNKNOWN", currency_code |-> "RUB",
                     offer_id |-> py_str(remnants[k].Kod), old_price |-> <<"0">>,
                     price |-> <<"1">>]]]

\* [exc, prices]; offer_ids is only read
seller_create_prices(remnants, ids) ==
    LET rows == RowsIn(remnants, ids)
        conv == [k \in 1..Len(rows) |-> price_conversion(rows[k].Cena)]
    IN  IF FirstExc(conv) # "" THEN [exc |-> FirstExc(conv), prices |-> <<>>]
        ELSE [exc |-> "",
              prices |-> [k \in 1..Len(rows) |->
                  [auto_action_enabled |-> "UNKNOWN",
                   currency_code |-> "RUB",
                   offer_id |-> py_str(rows[k].Kod),
                   old_price |-> <<"0">>,
                   price |-> conv[k].val]]]

-----------------------------------------------------------------------------
(* market.py: create_prices *)

\* int(price_conversion(price))
market_price_value(price) ==
    LET conv == price_conversion(price)
    IN  IF conv.exc # "" THEN [exc |-> conv.exc, val |-> 0]
        ELSE py_int(Str(conv.val))

market_create_prices(remnants, ids) ==
    LET rows == RowsIn(remnants, ids)
        value == [k \in 1..Len(rows) |-> market_price_value(rows[k].Cena)]
    IN  IF FirstExc(value) # "" THEN [exc |-> FirstExc(value), prices |-> <<>>]
        ELSE [exc |-> "",
              prices |-> [k \in 1..Len(rows) |->
                  [id |-> py_str(rows[k].Kod),
                   price |-> [value |-> value[k].val, currencyId |-> "RUR"]]]]

-----------------------------------------------------------------------------
(* seller.py: divide *)

\* l[i:j] for 0 <= i <= j: the end is cut at len(l)
Slice(l, i, j) == SubSeq(l, i + 1, IF j < Len(l) THEN j ELSE Len(l))

\* range(0, stop, step) for step > 0, as a list
Range0(stop, step) ==
    LET count == Cardinality({i \in 0..(stop - 1) : i % step = 0})
    IN  [k \in 1..count |-> (k - 1) * step]

\* a divide whose range runs one index too far
divide_extra(l, size) ==
    LET starts == Range0(Len(l) + 1, size)
    IN  [k \in 1..Len(starts) |-> Slice(l, starts[k], starts[k] + size)]

\* list(divide(l, size)): the chunks in the order the generator yields them
divide(l, size) ==
    LET starts == Range0(Len(l), size)
    IN  [k \in 1..Len(starts) |-> Slice(l, starts[k], starts[k] + size)]

-----------------------------------------------------------------------------
(* Enumerated inputs *)

T123 == <<"1", "2", "3">>
T456 == <<"4", "5", "6">>
T999 == <<"9", "9", "9">>
TPrice == <<"5", "'", "9", "9", "0", ".", "0", "0", " ", "r", "u", "b", ".">>

\* lists over S of length 0..max
SeqsUpTo(S, max) == UNION {[1..len -> S] : len \in 0..max}

OfferIds == {T123, T456}
Warehouses == {"WH-1", "WH-2"}

\* codes of feed rows: a str in the catalog, an int whose str() is in the
\* catalog, a str that is in no catalog
FeedCodes == {Str(T123), Num(456), Str(T999)}

Quantities ==
    {Str(<<">", "1", "0">>), Str(<<"1">>), Str(<<"7">>), Str(<<"-", "3">>),
     Str(<<"a", "b", "c">>), Num(1), Num(12)}

TPrice2 == <<"1", " ", "2", "9", "9", ".", "9", "9", " ", "r", "u", "b", ".">>
TNoPrice == <<"N", "e", "t", " ", "c", "e", "n", "y">>

\* price cells: two formatted prices, a text without digits, a numeric cell
PriceCells == {Str(TPrice), Str(TPrice2), Str(TNoPrice), Num(5990)}

PriceRows ==
    {[Kod |-> c, Kolichestvo |-> Str(<<"7">>), Cena |-> p] :
        c \in FeedCodes, p \in PriceCells}

StockRows ==
    {[Kod |-> c, Kolichestvo |-> q, Cena |-> Str(TPrice)] :
        c \in FeedCodes, q \in Quantities}

-----------------------------------------------------------------------------
(* No orchestrator runs while a function is applied on its own *)

None == [t |-> "None", v |-> 0]

NoRun ==
    /\ run = ""
    /\ pc = ""
    /\ account = ""
    /\ supplier = <<>>
    /\ catalog = <<>>
    /\ page_cap = 0
    /\ page = Str(<<>>)
    /\ product_list = <<>>
    /\ sent = 0
    /\ trace = <<>>
    /\ printed = <<>>
    /\ returned = None

-----------------------------------------------------------------------------
(* Stock reconciliation applied to every enumerated feed and offer list *)

InitStocks ==
    /\ NoRun
    /\ watch_remnants \in SeqsUpTo(StockRows, MaxFeed)
    /\ offer_ids \in SeqsUpTo(OfferIds, MaxOffers)
    /\ given = offer_ids
    /\ warehouse_id = ""
    /\ stocks = <<>>
    /\ prices = <<>>
    /\ lst = <<>>
    /\ n = 1
    /\ chunks = <<>>
    /\ exc = ""
    /\ call = ""

SellerCreateStocks ==
    /\ call = ""
    /\ LET r == seller_create_stocks(watch_remnants, offer_ids)
       IN  /\ stocks' = r.stocks
           /\ offer_ids' = r.offer_ids
           /\ exc' = r.exc
    /\ call' = "seller.create_stocks"
    /\ UNCHANGED <<watch_remnants, given, warehouse_id, prices, lst, n, chunks>>
    /\ UNCHANGED syncVars

MarketCreateStocks ==
    /\ call = ""
    /\ \E wh \in Warehouses :
          LET r == market_create_stocks(watch_remnants, offer_ids, wh)
          IN  /\ warehouse_id' = wh
              /\ stocks' = r.stocks
              /\ offer_ids' = r.offer_ids
              /\ exc' = r.exc
    /\ call' = "market.create_stocks"
    /\ UNCHANGED <<watch_remnants, given, prices, lst, n, chunks>>
    /\ UNCHANGED syncVars

NextStocks == SellerCreateStocks \/ MarketCreateStocks

SpecStocks == InitStocks /\ [][NextStocks]_vars

-----------------------------------------------------------------------------
(* Reading a stock-update list *)

Elems(l) == {l[i] : i \in 1..Len(l)}
Occ(l, x) == Cardinality({i \in 1..Len(l) : l[i] = x})
NoDuplicates(l) == \A i, j \in 1..Len(l) : l[i] = l[j] => i = j

StockId(u) == IF "offer_id" \in DOMAIN u THEN u.offer_id ELSE u.sku
StockCount(u) == IF "offer_id" \in DOMAIN u THEN u.stock ELSE u.items[1].count
StockIds(l) == [k \in 1..Len(l) |-> StockId(l[k])]

StocksReturned == call \in {"seller.create_stocks", "market.create_stocks"} /\ exc = ""

FeedCodeTexts == {py_str(watch_remnants[i].Kod) : i \in 1..Len(watch_remnants)}

\* The rows the first loop matches: the j-th row carrying a code is matched
\* while the original list holds at least j copies of that code.
MatchedRows ==
    {i \in 1..Len(watch_remnants) :
        LET code == py_str(watch_remnants[i].Kod)
        IN  Cardinality({j \in 1..(i - 1) : py_str(watch_remnants[j].Kod) = code})
                < Occ(given, code)}

\* The rule table of the quantity resolver on the enumerated quantities.
ExpectedStock(q) ==
    CASE q = Str(<<">", "1", "0">>) -> [err |-> FALSE, val |-> 100]
      [] q = Str(<<"1">>) -> [err |-> FALSE, val |-> 0]
      [] q = Num(1) -> [err |-> FALSE, val |-> 0]
      [] q = Str(<<"7">>) -> [err |-> FALSE, val |-> 7]
      [] q = Str(<<"-", "3">>) -> [err |-> FALSE, val |-> 0 - 3]
      [] q = Num(12) -> [err |-> FALSE, val |-> 12]
      [] OTHER -> [err |-> TRUE, val |-> 0]

StockCoverage ==
    /\ \A id \in Elems(given) : Occ(StockIds(stocks), id) = 1
    /\ \A k \in 1..Len(stocks) : StockId(stocks[k]) \in Elems(given)

\* C1 as stated: whenever create_stocks (Ozon or Yandex) returns, its output
\* holds exactly one StockUpdate per identifier of the original offer list
\* and none for any other identifier.
C1_CoverageAnyCollection == StocksReturned => StockCoverage

\* C1 amended: the same, for an original offer list without duplicate
\* identifiers.
C1_CoverageNoDuplicates == (StocksReturned /\ NoDuplicates(given)) => StockCoverage

C1_Witness ==
    /\ StocksReturned
    /\ NoDuplicates(given)
    /\ Len(given) = 2
    /\ Len(watch_remnants) = 2
    /\ FeedCodeTexts = {T123, T999}
    /\ StockIds(stocks) = <<T123, T456>>

\* C2: whenever create_stocks returns, every identifier of the original
\* offer list that is the code of no feed row is in the output, with count 0
\* and, for Yandex, with the warehouse of the call.
C2_ZeroFill ==
    StocksReturned =>
        \A id \in Elems(given) \ FeedCodeTexts :
            /\ \E k \in 1..Len(stocks) : StockId(stocks[k]) = id
            /\ \A k \in 1..Len(stocks) :
                  StockId(stocks[k]) = id =>
                      /\ StockCount(stocks[k]) = 0
                      /\ call = "market.create_stocks" =>
                            stocks[k].warehouseId = warehouse_id

C2_Witness ==
    /\ StocksReturned
    /\ call = "market.create_stocks"
    /\ warehouse_id = "WH-2"
    /\ given = <<T456, T123>>
    /\ FeedCodeTexts = {T123}
    /\ \E k \in 1..Len(stocks) : StockId(stocks[k]) = T123 /\ StockCount(stocks[k]) = 100
    /\ \E k \in 1..Len(stocks) : StockId(stocks[k]) = T456 /\ StockCount(stocks[k]) = 0

\* C7: the count of every matched row follows the rule table (">10" gives
\* 100, "1" gives 0, other integer text gives that integer), in feed order;
\* a matched row whose quantity is no integer makes the call raise ValueError
\* and return nothing.
C7_QuantityMapping ==
    call \in {"seller.create_stocks", "market.create_stocks"} =>
        IF \E i \in MatchedRows : ExpectedStock(watch_remnants[i].Kolichestvo).err
        THEN exc = "ValueError" /\ stocks = <<>>
        ELSE /\ exc = ""
             /\ \A i \in MatchedRows :
                   LET k == Cardinality({j \in MatchedRows : j <= i})
                   IN  /\ StockId(stocks[k]) = py_str(watch_remnants[i].Kod)
                       /\ StockCount(stocks[k]) =
                              ExpectedStock(watch_remnants[i].Kolichestvo).val

C7_Witness ==
    /\ call = "seller.create_stocks"
    /\ exc = ""
    /\ Len(watch_remnants) = 2
    /\ watch_remnants[1].Kolichestvo = Str(<<"1">>)
    /\ watch_remnants[2].Kolichestvo = Str(<<"7">>)
    /\ MatchedRows = {1, 2}
    /\ StockCount(stocks[1]) = 0
    /\ StockCount(stocks[2]) = 7

\* C8 as stated: for a feed whose quantities are ">10", "1" or integer text
\* (negative integers included), every StockUpdate of the output carries a
\* count >= 0.
C8_NonNegativeStock ==
    (/\ StocksReturned
     /\ \A i \in 1..Len(watch_remnants) :
           ~ExpectedStock(watch_remnants[i].Kolichestvo).err)
        => \A k \in 1..Len(stocks) : StockCount(stocks[k]) >= 0

-----------------------------------------------------------------------------
(* Price reconciliation applied to every enumerated feed and offer list *)

InitPrices ==
    /\ NoRun
    /\ watch_remnants \in SeqsUpTo(PriceRows, MaxFeed)
    /\ offer_ids \in SeqsUpTo(OfferIds, MaxOffers)
    /\ given = offer_ids
    /\ warehouse_id = ""
    /\ stocks = <<>>
    /\ prices = <<>>
    /\ lst = <<>>
    /\ n = 1
    /\ chunks = <<>>
    /\ exc = ""
    /\ call = ""

SellerCreatePrices ==
    /\ call = ""
    /\ LET r == seller_create_prices(watch_remnants, offer_ids)
       IN  /\ prices' = r.prices
           /\ exc' = r.exc
    /\ call' = "seller.create_prices"
    /\ UNCHANGED <<watch_remnants, offer_ids, given, warehouse_id, stocks, lst, n, chunks>>
    /\ UNCHANGED syncVars

MarketCreatePrices ==
    /\ call = ""
    /\ LET r == market_create_prices(watch_remnants, offer_ids)
       IN  /\ prices' = r.prices
           /\ exc' = r.exc
    /\ call' = "market.create_prices"
    /\ UNCHANGED <<watch_remnants, offer_ids, given, warehouse_id, stocks, lst, n, chunks>>
    /\ UNCHANGED syncVars

NextPrices == SellerCreatePrices \/ MarketCreatePrices

SpecPrices == InitPrices /\ [][NextPrices]_vars

PriceId(u) == IF "offer_id" \in DOMAIN u THEN u.offer_id ELSE u.id
PriceIds(l) == [k \in 1..Len(l) |-> PriceId(l[k])]

PricesCalled == call \in {"seller.create_prices", "market.create_prices"}

\* C3: every identifier of a create_prices output (Ozon or Yandex) is the
\* code of a feed row and a member of the offer list passed in; a feed code
\* outside the offer list is never in the output, and an empty feed gives an
\* empty output.
C3_PriceSubset ==
    PricesCalled =>
        /\ \A k \in 1..Len(prices) :
              PriceId(prices[k]) \in FeedCodeTexts \cap Elems(given)
        /\ watch_remnants = <<>> => (exc = "" /\ prices = <<>>)
        /\ offer_ids = given

C3_Witness ==
    /\ call = "market.create_prices"
    /\ exc = ""
    /\ given = <<T123, T456>>
    /\ Len(watch_remnants) = 2
    /\ py_str(watch_remnants[1].Kod) = T999
    /\ py_str(watch_remnants[2].Kod) = T123
    /\ PriceIds(prices) = <<T123>>

\* the str cells whose normalized price is the empty string
Unusable(cell) == cell.t = "str" /\ price_conversion(cell).val = <<>>

\* the rows create_prices has to answer: the code is in the offer list and
\* the price is usable
UsableRows ==
    {i \in 1..Len(watch_remnants) :
        /\ py_str(watch_remnants[i].Kod) \in Elems(given)
        /\ ~Unusable(watch_remnants[i].Cena)}

\* C6 as stated: on a feed of str prices, create_prices (Ozon or Yandex)
\* raises nothing, emits no PriceUpdate for a matching row whose normalized
\* price is the empty string, and emits the PriceUpdates of the other
\* matching rows.
C6_UnusableSkipped ==
    (PricesCalled /\ \A i \in 1..Len(watch_remnants) : watch_remnants[i].Cena.t = "str")
        => /\ exc = ""
           /\ Len(prices) = Cardinality(UsableRows)
           /\ \A i \in UsableRows :
                 PriceId(prices[Cardinality({j \in UsableRows : j <= i})])
                     = py_str(watch_remnants[i].Kod)

-----------------------------------------------------------------------------
(* divide applied to every enumerated list and chunk size *)

Items == {"x", "y"}

InitDivide ==
    /\ NoRun
    /\ lst \in SeqsUpTo(Items, MaxLen)
    /\ n \in 1..MaxChunk
    /\ chunks = <<>>
    /\ watch_remnants = <<>>
    /\ offer_ids = <<>>
    /\ given = <<>>
    /\ warehouse_id = ""
    /\ stocks = <<>>
    /\ prices = <<>>
    /\ exc = ""
    /\ call = ""

Divide ==
    /\ call = ""
    /\ chunks' = divide(lst, n)
    /\ call' = "divide"
    /\ UNCHANGED <<watch_remnants, offer_ids, given, warehouse_id, stocks, prices,
                   lst, n, exc>>
    /\ UNCHANGED syncVars

NextDivide == Divide

SpecDivide == InitDivide /\ [][NextDivide]_vars

Ceil(a, b) == (a + b - 1) \div b

RECURSIVE Concat(_)
Concat(ls) == IF ls = <<>> THEN <<>> ELSE Head(ls) \o Concat(Tail(ls))

\* the chunks are a batching of l with chunk size size
Batching(parts, l, size) ==
    /\ Len(parts) = Ceil(Len(l), size)
    /\ \A k \in 1..Len(parts) : Len(parts[k]) >= 1
    /\ \A k \in 1..(Len(parts) - 1) : Len(parts[k]) = size
    /\ parts # <<>> =>
          Len(parts[Len(parts)]) = Len(l) - size * (Ceil(Len(l), size) - 1)
    /\ Concat(parts) = l

\* C9: for a list of length L and n > 0, divide yields ceil(L/n) chunks
\* (none for L = 0), none of them empty, all of size n but the last, which
\* holds L - n*(ceil(L/n)-1) items, and the chunks concatenated in the order
\* yielded are the list.
C9_Batching == call = "divide" => Batching(chunks, lst, n)

C9_Witness ==
    /\ call = "divide"
    /\ lst = <<"x", "y", "y", "x", "y">>
    /\ n = 2
    /\ chunks = <<<<"x", "y">>, <<"y", "x">>, <<"y">>>>

-----------------------------------------------------------------------------
(* The orchestrators: main, upload_stocks and upload_prices of seller.py   *)
(* and market.py.  A step is one call out of the orchestrator (a listing   *)
(* page, download_stock, a batch submission) or one reconciliation.        *)

SellerRuns == {"seller.main", "seller.upload_stocks", "seller.upload_prices"}
MarketRuns == {"market.main", "market.upload_stocks", "market.upload_prices"}
Accounts == {"ozon", "fbs", "dbs"}

\* the chunk sizes written at the call sites of divide
seller_main_stocks_chunk == 100
seller_main_prices_chunk == 900
seller_upload_prices_chunk == 1000
seller_upload_stocks_chunk == 100
market_main_stocks_chunk == 2000
market_upload_prices_chunk == 500
market_upload_stocks_chunk == 2000

\* the "limit" of a listing request
seller_page_limit == 1000
market_page_limit == 200

\* a stock chunk size one too large
StocksChunkPlusOne(r) ==
    CASE r = "seller.main" -> seller_main_stocks_chunk + 1
      [] r = "seller.upload_stocks" -> seller_upload_stocks_chunk + 1
      [] r = "market.main" -> market_main_stocks_chunk + 1
      [] r = "market.upload_stocks" -> market_upload_stocks_chunk + 1

StocksChunk(r) ==
    CASE r = "seller.main" -> seller_main_stocks_chunk
      [] r = "seller.upload_stocks" -> seller_upload_stocks_chunk
      [] r = "market.main" -> market_main_stocks_chunk
      [] r = "market.upload_stocks" -> market_upload_stocks_chunk

PricesChunk(r) ==
    CASE r = "seller.main" -> seller_main_prices_chunk
      [] r = "seller.upload_prices" -> seller_upload_prices_chunk
      [] r = "market.upload_prices" -> market_upload_prices_chunk

\* WAREHOUSE_FBS_ID and WAREHOUSE_DBS_ID
Warehouse(acct) == IF acct = "fbs" THEN "WH-1" ELSE "WH-2"

\* what requests raises: a timeout, a connection error, a non-success status
ApiErrors == {"ReadTimeout", "ConnectionError", "HTTPError"}

Min(a, b) == IF a < b THEN a ELSE b

\* bool(x) of a str, an int or None
Truthy(x) ==
    CASE x.t = "str" -> x.v # <<>>
      [] x.t = "int" -> x.v # 0
      [] OTHER -> FALSE

\* a call of the orchestrator: a listing request carries the cursor sent, the
\* cursor and total received and the ids of the items received; a
\* reconciliation carries the list it returned; a submission its batch
Event(op, pg, tok, total, batch, ok) ==
    [op |-> op, account |-> account, page |-> pg, token |-> tok,
     total |-> total, batch |-> batch, ok |-> ok]

Call(op, batch, ok) == Event(op, None, None, 0, batch, ok)

----------------------------------------------------------------------------
(* The marketplaces' listing endpoints: a cursor is the number of items    *)
(* already served, written in decimal; a page holds at most the requested  *)
(* limit and at most page_cap items.                                       *)

CursorPos(cursor) == IF Truthy(cursor) THEN DigitsToNat(cursor.v) ELSE 0

PageEnd(acct, cursor, limit) ==
    Min(CursorPos(cursor) + Min(limit, page_cap), Len(catalog[acct]))

PageIds(acct, cursor, limit) ==
    SubSeq(catalog[acct], CursorPos(cursor) + 1, PageEnd(acct, cursor, limit))

\* the "result" of POST /v2/product/list
seller_get_product_list(last_id, client_id) ==
    LET ids == PageIds(client_id, last_id, seller_page_limit)
    IN  [items |-> [k \in 1..Len(ids) |-> [offer_id |-> ids[k]]],
         total |-> Len(catalog[client_id]),
         last_id |-> Str(NatToText(PageEnd(client_id, last_id, seller_page_limit)))]

\* the "result" of GET campaigns/{id}/offer-mapping-entries; on the last
\* page the token is absent (last = None) or empty
market_get_product_list(pg, campaign_id, last) ==
    LET ids == PageIds(campaign_id, pg, market_page_limit)
        end == PageEnd(campaign_id, pg, market_page_limit)
    IN  [offerMappingEntries |-> [k \in 1..Len(ids) |-> [offer |-> [shopSku |-> ids[k]]]],
         paging |-> [nextPageToken |->
                        IF end < Len(catalog[campaign_id]) THEN Str(NatToText(end))
                        ELSE last]]

----------------------------------------------------------------------------
(* Exceptions: main catches inside its try block and prints; everything    *)
(* else propagates to the caller.                                          *)

\* a main without a try block
InTryNowhere == FALSE

InTry == run = "seller.main" \/ (run = "market.main" /\ pc # "download")

Message(e) ==
    CASE e = "ReadTimeout" -> <<"timeout">>
      [] e = "ConnectionError" -> <<e, "connection error">>
      [] OTHER -> <<e, "ERROR_2">>

\* an error that is swallowed where it happens: the step is tried again
RaiseSwallowed(e) ==
    /\ exc' = e
    /\ pc' = pc
    /\ printed' = printed

\* an error that only skips the stock updates of seller.main
RaiseSkipsStep(e) ==
    /\ exc' = e
    /\ IF run = "seller.main" /\ pc = "update_stocks"
       THEN pc' = "create_prices" /\ printed' = Append(printed, Message(e))
       ELSE pc' = "done" /\ printed' = Append(printed, Message(e))

Raise(e) ==
    /\ exc' = e
    /\ IF InTry
       THEN pc' = "done" /\ printed' = Append(printed, Message(e))
       ELSE pc' = "raised" /\ printed' = printed

AfterFetch(r) ==
    CASE r = "seller.main" -> "download"
      [] r \in {"seller.upload_stocks", "market.main", "market.upload_stocks"} -> "create_stocks"
      [] r \in {"seller.upload_prices", "market.upload_prices"} -> "create_prices"

AfterStocks(r) ==
    CASE r = "seller.main" -> "create_prices"
      [] r = "market.main" -> "upload_prices"
      [] OTHER -> "return"

AfterPrices(r) == IF r = "seller.main" THEN "done" ELSE "return"

----------------------------------------------------------------------------
(* get_offer_ids: the statements of the loop body and the final loop *)

\* an extend that puts the new items in front
extend_front(list, items) == items \o list

\* seller.py: product_list.extend(some_prod.get("items"))
seller_extend(list, items) == list \o items

\* seller.py: total == len(product_list)
seller_fetch_done(total, list) == total = Len(list)

\* a final loop that misses the last product
seller_offer_ids_short(list) == [k \in 1..(Len(list) - 1) |-> list[k].offer_id]

\* seller.py: the offer_id of every product, in list order
seller_offer_ids(list) == [k \in 1..Len(list) |-> list[k].offer_id]

\* market.py: product_list.extend(some_prod.get("offerMappingEntries"))
market_extend(list, entries) == list \o entries

\* market.py: the shopSku of every product, in list order
market_offer_ids(list) == [k \in 1..Len(list) |-> list[k].offer.shopSku]

----------------------------------------------------------------------------
(* Steps *)

\* seller.get_offer_ids: one turn of the while loop
SellerFetchPage ==
    /\ run \in SellerRuns
    /\ pc = "fetch"
    /\ \/ \E e \in ApiErrors :
             /\ trace' = Append(trace, Event("get_product_list", page, None, 0, <<>>, FALSE))
             /\ Raise(e)
             /\ page' = Str(<<>>)
             /\ product_list' = <<>>
             /\ UNCHANGED <<offer_ids, given>>
       \/ LET some_prod == seller_get_product_list(page, account)
              list == seller_extend(product_list, some_prod.items)
          IN  /\ trace' = Append(trace,
                     Event("get_product_list", page, some_prod.last_id, some_prod.total,
                           [k \in 1..Len(some_prod.items) |-> some_prod.items[k].offer_id],
                           TRUE))
              /\ IF seller_fetch_done(some_prod.total, list)
                 THEN /\ offer_ids' = seller_offer_ids(list)
                      /\ given' = offer_ids'
                      /\ pc' = AfterFetch(run)
                      /\ page' = Str(<<>>)
                      /\ product_list' = <<>>
                 ELSE /\ page' = some_prod.last_id
                      /\ product_list' = list
                      /\ UNCHANGED <<offer_ids, given, pc>>
              /\ UNCHANGED <<exc, printed>>
    /\ UNCHANGED <<watch_remnants, warehouse_id, stocks, prices, chunks, run, account,
                   supplier, catalog, page_cap, sent, returned>>
    /\ UNCHANGED pureVars

\* market.get_offer_ids: one turn of the while loop
MarketFetchPage ==
    /\ run \in MarketRuns
    /\ pc = "fetch"
    /\ \/ \E e \in ApiErrors :
             /\ trace' = Append(trace, Event("get_product_list", page, None, 0, <<>>, FALSE))
             /\ Raise(e)
             /\ page' = Str(<<>>)
             /\ product_list' = <<>>
             /\ UNCHANGED <<offer_ids, given>>
       \/ \E last \in {None, Str(<<>>)} :
             LET some_prod == market_get_product_list(page, account, last)
                 list == market_extend(product_list, some_prod.offerMappingEntries)
                 token == some_prod.paging.nextPageToken
             IN  /\ trace' = Append(trace,
                        Event("get_product_list", page, token, 0,
                              [k \in 1..Len(some_prod.offerMappingEntries) |->
                                  some_prod.offerMappingEntries[k].offer.shopSku],
                              TRUE))
                 /\ IF ~Truthy(token)
                    THEN /\ offer_ids' = market_offer_ids(list)
                         /\ given' = offer_ids'
                         /\ pc' = AfterFetch(run)
                         /\ page' = Str(<<>>)
                         /\ product_list' = <<>>
                    ELSE /\ page' = token
                         /\ product_list' = list
                         /\ UNCHANGED <<offer_ids, given, pc>>
                 /\ UNCHANGED <<exc, printed>>
    /\ UNCHANGED <<watch_remnants, warehouse_id, stocks, prices, chunks, run, account,
                   supplier, catalog, page_cap, sent, returned>>
    /\ UNCHANGED pureVars

\* download_stock() in seller.main (inside try) and market.main (before try)
Download ==
    /\ run \in {"seller.main", "market.main"}
    /\ pc = "download"
    /\ \/ \E e \in ApiErrors :
             /\ trace' = Append(trace, Call("download_stock", <<>>, FALSE))
             /\ Raise(e)
             /\ UNCHANGED watch_remnants
       \/ /\ trace' = Append(trace, Call("download_stock", <<>>, TRUE))
          /\ watch_remnants' = supplier
          /\ pc' = IF run = "seller.main" THEN "create_stocks" ELSE "fetch"
          /\ UNCHANGED <<exc, printed>>
    /\ UNCHANGED <<offer_ids, given, warehouse_id, stocks, prices, chunks, run, account,
                   supplier, catalog, page_cap, page, product_list, sent, returned>>
    /\ UNCHANGED pureVars

\* stocks = create_stocks(...) and list(divide(stocks, size))
CreateStocks ==
    /\ pc = "create_stocks"
    /\ LET r == IF run \in SellerRuns
                THEN seller_create_stocks(watch_remnants, offer_ids)
                ELSE market_create_stocks(watch_remnants, offer_ids, Warehouse(account))
           parts == divide(r.stocks, StocksChunk(run))
       IN  /\ offer_ids' = r.offer_ids
           /\ warehouse_id' = IF run \in MarketRuns THEN Warehouse(account) ELSE warehouse_id
           /\ IF r.exc # ""
              THEN /\ trace' = Append(trace, Call("create_stocks", <<>>, FALSE))
                   /\ Raise(r.exc)
                   /\ UNCHANGED <<stocks, chunks, sent>>
              ELSE /\ trace' = Append(trace, Call("create_stocks", r.stocks, TRUE))
                   /\ stocks' = r.stocks
                   /\ chunks' = parts
                   /\ sent' = 0
                   /\ pc' = IF parts = <<>> THEN AfterStocks(run) ELSE "update_stocks"
                   /\ UNCHANGED <<exc, printed>>
    /\ UNCHANGED <<watch_remnants, given, prices, run, account, supplier, catalog,
                   page_cap, page, product_list, returned>>
    /\ UNCHANGED pureVars

\* update_stocks(some_stock, ...) for the next chunk
UpdateStocks ==
    /\ pc = "update_stocks"
    /\ LET some_stock == chunks[sent + 1]
       IN  \/ \E e \in ApiErrors :
                 /\ trace' = Append(trace, Call("update_stocks", some_stock, FALSE))
                 /\ Raise(e)
                 /\ UNCHANGED sent
           \/ /\ trace' = Append(trace, Call("update_stocks", some_stock, TRUE))
              /\ sent' = sent + 1
              /\ pc' = IF sent + 1 = Len(chunks) THEN AfterStocks(run) ELSE pc
              /\ UNCHANGED <<exc, printed>>
    /\ UNCHANGED <<watch_remnants, offer_ids, given, warehouse_id, stocks, prices, chunks,
                   run, account, supplier, catalog, page_cap, page, product_list, returned>>
    /\ UNCHANGED pureVars

\* prices = create_prices(...) and list(divide(prices, size))
CreatePrices ==
    /\ pc = "create_prices"
    /\ LET r == IF run \in SellerRuns
                THEN seller_create_prices(watch_remnants, offer_ids)
                ELSE market_create_prices(watch_remnants, offer_ids)
           parts == divide(r.prices, PricesChunk(run))
       IN  IF r.exc # ""
           THEN /\ trace' = Append(trace, Call("create_prices", <<>>, FALSE))
                /\ Raise(r.exc)
                /\ UNCHANGED <<prices, chunks, sent>>
           ELSE /\ trace' = Append(trace, Call("create_prices", r.prices, TRUE))
                /\ prices' = r.prices
                /\ chunks' = parts
                /\ sent' = 0
                /\ pc' = IF parts = <<>> THEN AfterPrices(run) ELSE "update_price"
                /\ UNCHANGED <<exc, printed>>
    /\ UNCHANGED <<watch_remnants, offer_ids, given, warehouse_id, stocks, run, account,
                   supplier, catalog, page_cap, page, product_list, returned>>
    /\ UNCHANGED pureVars

\* update_price(some_price, ...) for the next chunk
UpdatePrice ==
    /\ pc = "update_price"
    /\ LET some_price == chunks[sent + 1]
       IN  \/ \E e \in ApiErrors :
                 /\ trace' = Append(trace, Call("update_price", some_price, FALSE))
                 /\ Raise(e)
                 /\ UNCHANGED sent
           \/ /\ trace' = Append(trace, Call("update_price", some_price, TRUE))
              /\ sent' = sent + 1
              /\ pc' = IF sent + 1 = Len(chunks) THEN AfterPrices(run) ELSE pc
              /\ UNCHANGED <<exc, printed>>
    /\ UNCHANGED <<watch_remnants, offer_ids, given, warehouse_id, stocks, prices, chunks,
                   run, account, supplier, catalog, page_cap, page, product_list, returned>>
    /\ UNCHANGED pureVars

\* market.main: upload_prices(...) is a coroutine function called without
\* await: the call builds a coroutine object and runs nothing of its body
MarketMainUploadPrices ==
    /\ run = "market.main"
    /\ pc = "upload_prices"
    /\ trace' = Append(trace, Call("upload_prices", <<>>, TRUE))
    /\ IF account = "fbs"
       THEN account' = "dbs" /\ pc' = "fetch"
       ELSE account' = account /\ pc' = "done"
    /\ UNCHANGED <<watch_remnants, offer_ids, given, warehouse_id, stocks, prices, chunks,
                   exc, run, supplier, catalog, page_cap, page, product_list, sent,
                   printed, returned>>
    /\ UNCHANGED pureVars

\* the return of upload_stocks and upload_prices
Return ==
    /\ pc = "return"
    /\ LET not_zero(stock) == StockCount(stock) # 0
       IN  returned' = IF run \in {"seller.upload_stocks", "market.upload_stocks"}
                       THEN <<SelectSeq(stocks, not_zero), stocks>>
                       ELSE prices
    /\ pc' = "done"
    /\ UNCHANGED <<watch_remnants, offer_ids, given, warehouse_id, stocks, prices, chunks,
                   exc, run, account, supplier, catalog, page_cap, page, product_list,
                   sent, trace, printed>>
    /\ UNCHANGED pureVars

----------------------------------------------------------------------------
(* Runs *)

SyncRows ==
    {[Kod |-> Str(T123), Kolichestvo |-> Str(<<">", "1", "0">>), Cena |-> Str(TPrice)],
     [Kod |-> Num(456), Kolichestvo |-> Num(3), Cena |-> Str(TNoPrice)],
     [Kod |-> Str(T456), Kolichestvo |-> Str(<<"a", "b", "c">>), Cena |-> Str(TPrice2)]}

DbsCatalogs == {<<>>, <<T456>>, <<T123, T456>>}

NoCatalog == [a \in Accounts |-> <<>>]

\* the ids "1" .. "count" and a feed that lists them all
IdsUpTo(count) == [k \in 1..count |-> NatToText(k)]
FeedUpTo(count) ==
    [k \in 1..count |->
        [Kod |-> Num(k), Kolichestvo |-> Str(<<">", "1", "0">>), Cena |-> Str(TPrice)]]

\* runs on small feeds and catalogs, the listing serving short pages
SmallRun ==
    /\ run \in SellerRuns \cup MarketRuns
    /\ supplier \in SeqsUpTo(SyncRows, MaxSyncFeed)
    /\ page_cap \in 1..MaxPage
    /\ \E c \in SeqsUpTo(OfferIds, MaxCatalog) :
          \/ run \in SellerRuns /\ account = "ozon"
                /\ catalog = [NoCatalog EXCEPT !["ozon"] = c]
          \/ run = "market.main" /\ account = "fbs"
                /\ \E d \in DbsCatalogs : catalog = [NoCatalog EXCEPT !["fbs"] = c, !["dbs"] = d]
          \/ run \in {"market.upload_stocks", "market.upload_prices"}
                /\ account \in {"fbs", "dbs"}
                /\ catalog = [NoCatalog EXCEPT ![account] = c]

\* runs whose update list is one record longer than the chunk size
LargeRun ==
    /\ page_cap = seller_page_limit
    /\ \/ /\ run \in {"seller.main", "seller.upload_stocks"}
          /\ account = "ozon"
          /\ supplier \in SeqsUpTo(SyncRows, 1)
          /\ catalog = [NoCatalog EXCEPT !["ozon"] = IdsUpTo(StocksChunk(run) + 1)]
       \/ /\ run \in {"market.main", "market.upload_stocks"}
          /\ account = "fbs"
          /\ supplier \in SeqsUpTo(SyncRows, 1)
          /\ catalog = [NoCatalog EXCEPT !["fbs"] = IdsUpTo(StocksChunk(run) + 1),
                                         !["dbs"] = <<T123>>]
       \/ /\ run = "seller.upload_prices"
          /\ account = "ozon"
          /\ supplier = FeedUpTo(PricesChunk(run) + 1)
          /\ catalog = [NoCatalog EXCEPT !["ozon"] = IdsUpTo(PricesChunk(run) + 1)]
       \/ /\ run = "market.upload_prices"
          /\ account = "dbs"
          /\ supplier = FeedUpTo(PricesChunk(run) + 1)
          /\ catalog = [NoCatalog EXCEPT !["dbs"] = IdsUpTo(PricesChunk(run) + 1)]

\* the state a run starts in
Start ==
    /\ pc = IF run = "market.main" THEN "download" ELSE "fetch"
    /\ watch_remnants = IF run \in {"seller.main", "market.main"} THEN <<>> ELSE supplier
    /\ offer_ids = <<>>
    /\ given = <<>>
    /\ warehouse_id = ""
    /\ stocks = <<>>
    /\ prices = <<>>
    /\ chunks = <<>>
    /\ exc = ""
    /\ page = Str(<<>>)
    /\ product_list = <<>>
    /\ sent = 0
    /\ trace = <<>>
    /\ printed = <<>>
    /\ returned = None
    /\ lst = <<>>
    /\ n = 1
    /\ call = ""

Init == (SmallRun \/ LargeRun) /\ Start

Next ==
    \/ SellerFetchPage
    \/ MarketFetchPage
    \/ Download
    \/ CreateStocks
    \/ UpdateStocks
    \/ CreatePrices
    \/ UpdatePrice
    \/ MarketMainUploadPrices
    \/ Return

Spec == Init /\ [][Next]_vars

----------------------------------------------------------------------------
(* Reading the trace *)

\* the run ended without any exception
Completed == pc = "done" /\ exc = ""

\* the indices of the calls of op made for the account acct
CallsOf(op, acct) == {k \in 1..Len(trace) : trace[k].op = op /\ trace[k].account = acct}

\* the batches of the calls of op made for acct, in call order
BatchesOf(op, acct) ==
    LET made(e) == e.op = op /\ e.account = acct
        calls == SelectSeq(trace, made)
    IN  [k \in 1..Len(calls) |-> calls[k].batch]

IsPrefix(a, b) == Len(a) <= Len(b) /\ a = SubSeq(b, 1, Len(a))

\* C4 as stated: when seller.main ends without an exception, every feed row
\* whose code is among the identifiers fetched for the run has a PriceUpdate
\* in a submitted price batch.
C4_PriceCompleteness ==
    (run = "seller.main" /\ Completed) =>
        \A i \in 1..Len(watch_remnants) :
            py_str(watch_remnants[i].Kod) \in Elems(given) =>
                \E k \in CallsOf("update_price", "ozon") :
                    /\ trace[k].ok
                    /\ \E j \in 1..Len(trace[k].batch) :
                          trace[k].batch[j].offer_id = py_str(watch_remnants[i].Kod)

\* the place of a call in a sub-account's round
Phase(op) ==
    CASE op = "get_product_list" -> 1
      [] op = "create_stocks" -> 2
      [] op = "update_stocks" -> 3
      [] op = "create_prices" -> 4
      [] op = "update_price" -> 5
      [] OTHER -> 0

\* C5 as stated: when market.main ends without an exception, each
\* sub-account's calls come in the order fetch, stock batches, price
\* reconciliation, price batches; price reconciliation has run for FBS and
\* for DBS and every batch of its list was submitted; and every FBS call
\* precedes every DBS fetch.
C5_StepOrder ==
    (run = "market.main" /\ Completed) =>
        /\ \A acct \in {"fbs", "dbs"} :
              /\ \A j, k \in 1..Len(trace) :
                    (/\ j < k
                     /\ trace[j].account = acct /\ trace[k].account = acct
                     /\ Phase(trace[j].op) > 0 /\ Phase(trace[k].op) > 0)
                        => Phase(trace[j].op) <= Phase(trace[k].op)
              /\ \E c \in CallsOf("create_prices", acct) :
                    Concat(BatchesOf("update_price", acct)) = trace[c].batch
        /\ \A j \in CallsOf("update_price", "fbs") \cup CallsOf("update_stocks", "fbs") :
              \A k \in CallsOf("get_product_list", "dbs") : j < k

\* the most records one call of an endpoint takes
ozon_stocks_limit == 100
ozon_prices_limit == 1000
seller_main_prices_limit == 900
yandex_stocks_limit == 2000
yandex_prices_limit == 500

EndpointLimit(e) ==
    CASE e.op = "update_stocks" /\ e.account = "ozon" -> ozon_stocks_limit
      [] e.op = "update_price" /\ e.account = "ozon" ->
            IF run = "seller.main" THEN seller_main_prices_limit ELSE ozon_prices_limit
      [] e.op = "update_stocks" /\ e.account # "ozon" -> yandex_stocks_limit
      [] e.op = "update_price" /\ e.account # "ozon" -> yandex_prices_limit

SubmitOf(op) == IF op = "create_stocks" THEN "update_stocks" ELSE "update_price"

\* C10: every submit call carries at least 1 record and at most the limit
\* of its endpoint; the batches submitted for an update list are, in call
\* order, consecutive pieces of the list from its start, and they are the
\* whole list when the run ends without an exception.
C10_BatchLimits ==
    /\ \A k \in 1..Len(trace) :
          trace[k].op \in {"update_stocks", "update_price"} =>
              /\ Len(trace[k].batch) >= 1
              /\ Len(trace[k].batch) <= EndpointLimit(trace[k])
    /\ \A c \in 1..Len(trace) :
          (trace[c].op \in {"create_stocks", "create_prices"} /\ trace[c].ok) =>
              LET subs == Concat(BatchesOf(SubmitOf(trace[c].op), trace[c].account))
              IN  /\ IsPrefix(subs, trace[c].batch)
                  /\ Completed => subs = trace[c].batch

C10_Witness ==
    /\ run = "market.main"
    /\ Completed
    /\ \E j, k \in CallsOf("update_stocks", "fbs") :
          /\ j < k
          /\ Len(trace[j].batch) = yandex_stocks_limit
          /\ Len(trace[k].batch) = 1
    /\ CallsOf("update_stocks", "dbs") # {}

----------------------------------------------------------------------------
(* Reading the listing requests of the trace *)

\* the listing requests made for acct, in call order
Requests(acct) ==
    LET listing(e) == e.op = "get_product_list" /\ e.account = acct
    IN  SelectSeq(trace, listing)

\* the ids of the pages received for acct, concatenated in request order
Received(acct) ==
    LET reqs == Requests(acct)
    IN  Concat([k \in 1..Len(reqs) |-> reqs[k].batch])

\* the fetch for acct got its last page
CursorExhausted(acct) ==
    LET reqs == Requests(acct)
    IN  reqs # <<>> /\ reqs[Len(reqs)].ok /\ ~Truthy(reqs[Len(reqs)].token)

\* the account whose get_offer_ids call returned last
LastFetched ==
    IF CursorExhausted(account) THEN account
    ELSE IF account = "dbs" /\ CursorExhausted("fbs") THEN "fbs"
    ELSE ""

\* C11: in market.get_offer_ids the first request carries the empty cursor,
\* every later request carries the nextPageToken of the response just before
\* it, which was received and is neither empty nor absent, and the list
\* returned is the ids of the received pages in page order.
C11_CursorProtocol ==
    run \in MarketRuns =>
        /\ \A acct \in {"fbs", "dbs"} :
              LET reqs == Requests(acct)
              IN  /\ reqs # <<>> => reqs[1].page = Str(<<>>)
                  /\ \A k \in 2..Len(reqs) :
                        /\ reqs[k - 1].ok
                        /\ Truthy(reqs[k - 1].token)
                        /\ reqs[k].page = reqs[k - 1].token
        /\ LastFetched # "" => given = Received(LastFetched)
        /\ LastFetched = "" => given = <<>>

C11_Witness ==
    /\ run = "market.main"
    /\ account = "fbs"
    /\ page_cap = 1
    /\ Len(Requests("fbs")) = 2
    /\ Requests("fbs")[1].token = Str(<<"1">>)
    /\ Requests("fbs")[2].page = Str(<<"1">>)
    /\ Requests("fbs")[2].token = None
    /\ given = <<T456, T123>>
    /\ pc = "create_stocks"

----------------------------------------------------------------------------
(* The run as a sequential program: it takes its next step whenever it has one *)

\* the runs of seller.py with a feed of at most one row
OzonInit == SmallRun /\ run \in SellerRuns /\ Len(supplier) <= 1 /\ Start

OzonNext ==
    \/ SellerFetchPage
    \/ Download
    \/ CreateStocks
    \/ UpdateStocks
    \/ CreatePrices
    \/ UpdatePrice
    \/ Return

OzonSpec == OzonInit /\ [][OzonNext]_vars /\ WF_vars(OzonNext)

\* the number of products received in the first k listing requests for acct
Accumulated(acct, k) ==
    LET reqs == Requests(acct)
    IN  Len(Concat([j \in 1..k |-> reqs[j].batch]))

\* a listing request for acct has failed
FetchFailed(acct) ==
    \E k \in 1..Len(Requests(acct)) : ~Requests(acct)[k].ok

\* seller.get_offer_ids asks again only while the count differs from the total
CountStops ==
    LET reqs == Requests("ozon")
        last == Len(reqs)
    IN  /\ \A k \in 1..(last - 1) :
              reqs[k].ok /\ Accumulated("ozon", k) # reqs[k].total
        /\ (last > 0 /\ reqs[last].ok) =>
              IF Accumulated("ozon", last) = reqs[last].total
              THEN pc # "fetch" /\ given = Received("ozon") /\ given = catalog["ozon"]
              ELSE pc = "fetch"
        /\ catalog["ozon"] = <<>> => last <= 1

\* seller.get_offer_ids has returned the whole catalogue
FetchedAll == pc # "fetch" /\ given = catalog["ozon"] /\ ~FetchFailed("ozon")

\* C12: seller.get_offer_ids, served a finite catalogue page by page with its
\* total, stops at the first response after which the products received number
\* the reported total (one request for an empty catalogue) and asks no more;
\* unless a request fails it eventually returns the complete list.
C12_CountTermination ==
    /\ [](run \in SellerRuns => CountStops)
    /\ (run \in SellerRuns) ~> (FetchedAll \/ FetchFailed("ozon"))

C12_Witness ==
    /\ run = "seller.upload_stocks"
    /\ page_cap = 1
    /\ catalog["ozon"] = <<T123, T456>>
    /\ Len(Requests("ozon")) = 2
    /\ Accumulated("ozon", 1) = 1
    /\ Requests("ozon")[1].total = 2
    /\ Accumulated("ozon", 2) = 2
    /\ FetchedAll
    /\ pc = "create_stocks"

----------------------------------------------------------------------------
(* Failures *)

SubmitOps == {"update_stocks", "update_price"}

\* C13: when a listing request fails, get_offer_ids returns no list: the error
\* leaves the function, the pages received so far are dropped, offer_ids of
\* the caller is not assigned, and the run makes no further call, so that no
\* stock or price batch is submitted for the account of the failed fetch.
C13_FetchFailureAborts ==
    \A k \in 1..Len(trace) :
        (trace[k].op = "get_product_list" /\ ~trace[k].ok) =>
            LET acct == trace[k].account
            IN  /\ k = Len(trace)
                /\ exc \in ApiErrors
                /\ pc \in {"done", "raised"}
                /\ product_list = <<>>
                /\ given = IF run = "market.main" /\ acct = "dbs"
                           THEN Received("fbs")
                           ELSE <<>>
                /\ \A j \in 1..Len(trace) :
                      trace[j].account = acct => trace[j].op \notin SubmitOps

C13_Witness ==
    /\ run = "seller.main"
    /\ page_cap = 1
    /\ Len(Requests("ozon")) = 2
    /\ Requests("ozon")[1].ok
    /\ Requests("ozon")[1].batch = <<T123>>
    /\ ~Requests("ozon")[2].ok
    /\ given = <<>>
    /\ offer_ids = <<>>
    /\ pc = "done"
    /\ exc = "ReadTimeout"

ApiOps == {"get_product_list"} \cup SubmitOps

MainRuns == {"seller.main", "market.main"}

\* the size main or upload_* cuts the list of a create_* call with
ChunkOf(op) == IF op = "create_stocks" THEN StocksChunk(run) ELSE PricesChunk(run)

C15_FailureHalts ==
    run \in MainRuns =>
        \A k \in 1..Len(trace) :
            ~trace[k].ok =>
                /\ exc # ""
                /\ pc \in {"done", "raised"}
                /\ \A j \in (k + 1)..Len(trace) : trace[j].op \notin ApiOps
                /\ trace[k].account = "fbs" =>
                      \A j \in 1..Len(trace) : trace[j].account # "dbs"

C15_Witness ==
    /\ run = "market.main"
    /\ catalog["dbs"] # <<>>
    /\ trace # <<>>
    /\ trace[Len(trace)].op = "create_stocks"
    /\ trace[Len(trace)].account = "fbs"
    /\ ~trace[Len(trace)].ok
    /\ exc = "ValueError"
    /\ CallsOf("get_product_list", "dbs") = {}
    /\ CallsOf("update_stocks", "fbs") = {}
    /\ pc = "done"

====
